---- MODULE Spec2Model ----
(***************************************************************************)
(* Z-Kinetic attestation servers of aerevo/z-server-api.                   *)
(*                                                                         *)
(* The repository holds four server programs:                              *)
(*   "secure"  src/unnamed/part_000     challenge code, panic mode,        *)
(*                                      sessions, session verification     *)
(*   "api"     src/server.js:84-620     v3.0: tenants (SQLite), API keys,  *)
(*                                      quotas, admin operations           *)
(*   "proto"   src/server.js:1-82       first prototype (nonce only)       *)
(*   "index"   src/index.js             Render prototype                   *)
(* One of them runs; sys says which.  Every request handler is synchronous *)
(* JavaScript (better-sqlite3 is synchronous as well), and validateApiKey  *)
(* calls next() synchronously, so one request is one step of the event     *)
(* loop: requests and the setInterval sweeper interleave at handler        *)
(* granularity.                                                            *)
(*                                                                         *)
(* Time is counted in seconds (every duration of the code is a whole       *)
(* number of seconds); sensor scores are given in hundredths and averaged  *)
(* as the IEEE-754 doubles that JavaScript computes with.                  *)
(* crypto.randomBytes values are modelled as fresh identifiers.            *)
(* console output and the usage_logs table are not modelled.               *)
(***************************************************************************)
EXTENDS Integers, Sequences, FiniteSets, TLC

VARIABLES
  sys,               \* which server program runs
  now,               \* Date.now(), in seconds
  month,             \* index of the calendar month of new Date()
  ticks,             \* number of clock steps taken (bounds the run)
  activeChallenges,  \* nonce -> challenge (Map activeChallenges / nonces / challenges)
  sessions,          \* token -> session   (Map sessions)
  clients,           \* api_key -> row of table clients
  stats,             \* process-wide counters
  fresh,             \* count of random values drawn: [nonce, token, key]
  last,              \* the request handled by the latest step (Idle if that was none):
                     \* what it asked, what it saw, and its response
  hist               \* history: per nonce, the verify calls that got past the nonce
                     \* checks; the approved calls and the tokens they returned

vars == <<sys, now, month, ticks, activeChallenges, sessions, clients, stats,
          fresh, last, hist>>

----------------------------------------------------------------------------
(* Bounds of the model *)

MaxNonce == 2      \* challenges issued in one run of "api", "proto", "index"
MaxSecure == 1     \* challenges issued in one run of "secure"
MaxTicks == 2      \* clock steps in one run
MaxDigit == 1      \* the digits of a code are drawn from 0..MaxDigit
MaxCount == 1      \* cap of the counters that any request can increase
MaxClients == 1    \* tenants created in one run
MaxMonth == 1      \* month rollovers in one run
MaxVerify == 2     \* session validations counted in one run of the session store
MaxRenewDays == 62 \* a renewal is followed while the new expiry is within this many
                   \* days of the start of the run
MaxOwners == 2     \* tenants created in one run of two tenants
MaxDenied == 2     \* denied requests in one run of a subscription's life

(* Program constants *)

CodeLen == 3            \* Array.from({length: 3}, ...)
ChallengeTTL == 60      \* now + (60 * 1000) ms
SessionTTL == 300       \* now + (5 * 60 * 1000) ms
MotionThreshold == 15   \* motion  > 0.15
TouchThreshold == 15    \* touch   > 0.15
PatternThreshold == 10  \* pattern > 0.10
LowRiskAvg == 70        \* avgScore > 0.7
MediumRiskAvg == 40     \* avgScore > 0.4
BotAvg == 10            \* avg < 0.1  (index.js)
SecureMinSensors == 2   \* sensorsActive >= 2  (part_000)
ApiMinSensors == 1      \* sensorsActive >= 1  (server.js v3)
DayLen == 86400         \* 86400000 ms
DefaultDays == 30       \* durationDays || 30
StarterLimit == 5000    \* PLANS.starter, and the last default
BusinessLimit == 20000  \* PLANS.business
EnterpriseLimit == 100000 \* PLANS.enterprise
UnlimitedLimit == 0     \* PLANS.unlimited

----------------------------------------------------------------------------
(* JavaScript values *)

Undefined == [t |-> "undefined", v |-> 0]
Num(n)    == [t |-> "number", v |-> n]
Str       == [t |-> "string", v |-> 0]      \* a non-empty, non-numeric string

Truthy(x) == x.t # "undefined"

\* x > thr for a JS value x and a literal thr, both in hundredths (the nearest
\* doubles of two hundredths are ordered as the hundredths are): a non-numeric
\* string or undefined compares as NaN
Gt(x, thr) == x.t = "number" /\ x.v > thr

Digits == 0..MaxDigit
Codes  == [1..CodeLen -> Digits]

\* the codes drawn in the runs: the middle digit, which a reversal leaves in
\* place, is 0 (half of the codes are palindromes, half are not)
RunCodes == {c \in Codes : c[2] = 0}

DigitChar(d) == <<"0", "1", "2", "3", "4", "5", "6", "7", "8", "9">>[d + 1]

\* Array.prototype.join(''): the string of the elements' decimal digits
Join(arr) == [i \in 1..Len(arr) |-> DigitChar(arr[i])]

\* Array.prototype.slice().reverse()
Reverse(arr) == [i \in 1..Len(arr) |-> arr[Len(arr) + 1 - i]]

\* userResponse: an array of digits, another truthy value, or absent
Arr(a) == [t |-> "array", v |-> a]
NoResponse == [t |-> "undefined", v |-> <<>>]
UserResponses == {Arr(c) : c \in RunCodes} \cup {NoResponse}
WideResponses ==
  {Arr(c) : c \in Codes} \cup
  {NoResponse, Arr(<<>>), Arr(<<1, 0>>), [t |-> "string", v |-> <<>>]}

Bio(m, t, p) == [t |-> "object", motion |-> m, touch |-> t, pattern |-> p]
NoBio        == [t |-> "undefined", motion |-> Undefined, touch |-> Undefined,
                 pattern |-> Undefined]

\* biometricData of the runs: no sensor active, all active, absent
BiometricSamples ==
  { Bio(Num(0), Num(0), Num(0)), Bio(Num(70), Num(70), Num(71)), NoBio }

\* biometricData of the single-request runs: every sensor at, just above and
\* below its threshold, averages at and around 0.4 and 0.7, and fields that
\* are no numbers
WideBiometrics ==
  BiometricSamples \cup
  { Bio(Num(15), Num(15), Num(10)),
    Bio(Num(16), Num(0), Num(0)),
    Bio(Num(0), Num(16), Num(0)),
    Bio(Num(0), Num(0), Num(11)),
    Bio(Num(16), Num(16), Num(0)),
    Bio(Num(40), Num(40), Num(40)),
    Bio(Num(40), Num(40), Num(41)),
    Bio(Num(70), Num(70), Num(70)),
    Bio(Str, Num(70), Num(71)),
    Bio(Num(50), Undefined, Undefined) }

DeviceIds == {"", "dev1"}        \* "" is an absent deviceId

Nonces == 1..MaxNonce
NonceInputs == 0..MaxNonce       \* 0 is an absent nonce

----------------------------------------------------------------------------
(* Maps *)

Put(m, k, v)  == [x \in DOMAIN m \cup {k} |-> IF x = k THEN v ELSE m[x]]
Delete(m, k)  == [x \in DOMAIN m \ {k} |-> m[x]]
Keep(m, keys) == [x \in keys |-> m[x]]
EmptyMap      == <<>>

Inc(st, f) == [st EXCEPT ![f] = @ + 1]

NoChallenge == [present |-> FALSE]
Lookup(m, k) == IF k \in DOMAIN m THEN [present |-> TRUE, c |-> m[k]] ELSE NoChallenge

Resp(status, body) == [status |-> status, body |-> body]

\* what one handler run leaves behind; nonceCheck tells how far the call got
\* with its nonce: "rejected" before it read the used flag as false, "expired"
\* when it read the flag as false and found the challenge expired, "consumed"
\* when it marked the challenge used
Outcome(ch, sess, st, tokens, nonceCheck, res) ==
  [ch |-> ch, sess |-> sess, st |-> st, tokens |-> tokens, nonceCheck |-> nonceCheck,
   res |-> res]

----------------------------------------------------------------------------
(* JavaScript numbers.  A score that the request gives as k/100 is the double *)
(* nearest to k/100; sums and quotients are rounded to the nearest double,    *)
(* ties to even.  A double d >= 0 is held as the integer d * 2^FracBits, in    *)
(* four limbs of LimbBits bits, most significant first.  With scores of 0.01  *)
(* to 1.00 every value held is below 2^64 and every rounded value has more    *)
(* than MantissaBits bits, or is 0.                                            *)

MantissaBits == 53      \* bits of the significand of a double
FracBits == 62          \* bits held after the binary point
LimbBits == 16
Limb == 2^LimbBits

Carry(s) ==
  LET c4 == s[4]
      c3 == s[3] + (c4 \div Limb)
      c2 == s[2] + (c3 \div Limb)
      c1 == s[1] + (c2 \div Limb)
  IN <<c1, c2 % Limb, c3 % Limb, c4 % Limb>>

BigAdd(a, b) == Carry(<<a[1] + b[1], a[2] + b[2], a[3] + b[3], a[4] + b[4]>>)

\* the quotient of a by a small d, and whether it is exact
BigDiv(a, d) ==
  LET c1 == a[1]
      c2 == (c1 % d) * Limb + a[2]
      c3 == (c2 % d) * Limb + a[3]
      c4 == (c3 % d) * Limb + a[4]
  IN [q |-> <<c1 \div d, c2 \div d, c3 \div d, c4 \div d>>, exact |-> c4 % d = 0]

BigGt(a, b) == \E i \in 1..4 : a[i] > b[i] /\ \A j \in 1..(i - 1) : a[j] = b[j]

BitLength(v) == CHOOSE n \in 0..LimbBits : v < 2^n /\ (n = 0 \/ v >= 2^(n - 1))

Length(a) ==
  LET top == IF \E i \in 1..4 : a[i] > 0
             THEN CHOOSE i \in 1..4 : a[i] > 0 /\ \A j \in 1..(i - 1) : a[j] = 0
             ELSE 4
  IN (4 - top) * LimbBits + BitLength(a[top])

\* a (plus a fraction below one unit when it is not exact), rounded to
\* MantissaBits significant bits, ties to even
RoundToDouble(a, exact) ==
  LET r == Length(a) - MantissaBits
  IN IF r <= 0 THEN a
     ELSE LET ulp  == 2^r
              low  == a[4] % ulp
              half == ulp \div 2
              odd  == (a[4] \div ulp) % 2 = 1
              up   == low > half \/ (low = half /\ (~exact \/ odd))
          IN Carry(<<a[1], a[2], a[3], a[4] - low + (IF up THEN ulp ELSE 0)>>)

\* the double of the decimal literal k/100
Double(k) ==
  LET r == BigDiv(<<k * 2^(FracBits - 3 * LimbBits), 0, 0, 0>>, 100)
  IN RoundToDouble(r.q, r.exact)

\* x + y and x / d of doubles
FloatAdd(x, y) == RoundToDouble(BigAdd(x, y), TRUE)
FloatDiv(x, d) == LET r == BigDiv(x, d) IN RoundToDouble(r.q, r.exact)

----------------------------------------------------------------------------
(* Sensor checks and risk score, shared text of part_000 and server.js v3 *)

motionOK(motion)   == Gt(motion, MotionThreshold)
touchOK(touch)     == Gt(touch, TouchThreshold)
patternOK(pattern) == Gt(pattern, PatternThreshold)

Count(b) == IF b THEN 1 ELSE 0

\* [motionOK, touchOK, patternOK].filter(Boolean).length
sensorsActive(motion, touch, pattern) ==
  Count(motionOK(motion)) + Count(touchOK(touch)) + Count(patternOK(pattern))

IsNumber(x) == x.t = "number"

\* const avgScore = (motion + touch + pattern) / 3, on the doubles of the
\* three scores (given in hundredths)
avgScore(motion, touch, pattern) ==
  FloatDiv(FloatAdd(FloatAdd(Double(motion), Double(touch)), Double(pattern)), 3)

\* avgScore > thr: with a field that is no number the sum is NaN (or a string
\* that divides to NaN) and every comparison is false
AvgGt(motion, touch, pattern, thr) ==
  /\ IsNumber(motion) /\ IsNumber(touch) /\ IsNumber(pattern)
  /\ BigGt(avgScore(motion.v, touch.v, pattern.v), Double(thr))

riskScoreOf(motion, touch, pattern) ==
  IF AvgGt(motion, touch, pattern, LowRiskAvg) THEN "LOW"
  ELSE IF AvgGt(motion, touch, pattern, MediumRiskAvg) THEN "MEDIUM"
  ELSE "HIGH"

\* a report that leaves the pattern check out
reasonsWithoutPattern(codeMatch, motion, touch, pattern) ==
  (IF codeMatch THEN <<>> ELSE <<"Wrong code">>)
    \o (IF motionOK(motion) THEN <<>> ELSE <<"No motion">>)
    \o (IF touchOK(touch) THEN <<>> ELSE <<"No touch">>)

\* reasons.push(...) in order
reasonsOf(codeMatch, motion, touch, pattern) ==
  (IF codeMatch THEN <<>> ELSE <<"Wrong code">>)
    \o (IF motionOK(motion) THEN <<>> ELSE <<"No motion">>)
    \o (IF touchOK(touch) THEN <<>> ELSE <<"No touch">>)
    \o (IF patternOK(pattern) THEN <<>> ELSE <<"No pattern">>)

\* Array.isArray(userResponse) ? userResponse.join('') : ''
userCodeOf(userResponse) ==
  IF userResponse.t = "array" THEN Join(userResponse.v) ELSE <<>>

\* a panic code that is the code itself
panicCodeSame(code) == Join(code)

\* serverCode.split('').reverse().join('')
panicCodeOf(code) == Join(Reverse(code))

----------------------------------------------------------------------------
(* "secure": src/unnamed/part_000 *)

SecureStats0 ==
  [totalChallenges |-> 0, totalAttestations |-> 0, successfulAttestations |-> 0,
   failedAttestations |-> 0, panicModeActivations |-> 0, totalVerifications |-> 0]

\* a consume that marks the challenge used and leaves it in the store
secureConsumeMarks(ch, nonce) == [ch EXCEPT ![nonce].used = TRUE]

\* a consume that leaves the challenge in the store, unmarked
secureConsumeNothing(ch, nonce) == ch

\* E. challengeData.used = true; activeChallenges.delete(nonce)
secureConsume(ch, nonce) == Delete(ch, nonce)

\* I. codeMatch && sensorsActive >= 2
secureApproves(codeMatch, motion, touch, pattern) ==
  codeMatch /\ sensorsActive(motion, touch, pattern) >= SecureMinSensors

\* a consume that marks the challenge used and leaves it in the store
apiConsumeMarks(ch, nonce) == [ch EXCEPT ![nonce].used = TRUE]

\* a consume that leaves the challenge in the store, unmarked
apiConsumeNothing(ch, nonce) == ch

\* challengeData.used = true; activeChallenges.delete(nonce)  (server.js v3)
apiConsume(ch, nonce) == Delete(ch, nonce)

\* an expiry test that never finds an entry expired
isExpiredNever(expiry, t) == FALSE

\* an expiry test that takes the instant of expiry as past
isExpiredAtExpiry(expiry, t) == expiry <= t

\* D. challengeData.expiry < now
isExpired(expiry, t) == expiry < t

securePanicBody(token) ==
  [success |-> TRUE, sessionToken |-> token, verdict |-> "APPROVED_SILENT_ALARM",
   riskScore |-> "CRITICAL"]

secureApprovedBody(token, riskScore, tokenExpiry) ==
  [success |-> TRUE, sessionToken |-> token, verdict |-> "APPROVED",
   riskScore |-> riskScore, expiry |-> tokenExpiry]

\* app.post('/attest'): the state and response one call leaves
secureAttest(ch, sess, st, tokens, t, nonce, deviceId, userResponse, biometricData) ==
  IF nonce = 0 \/ deviceId = "" \/ ~Truthy(userResponse) \/ ~Truthy(biometricData)
  THEN Outcome(ch, sess, st, tokens, "rejected",
               Resp(400, [success |-> FALSE, error |-> "Missing required fields"]))
  ELSE IF nonce \notin DOMAIN ch
  THEN Outcome(ch, sess, st, tokens, "rejected",
               Resp(403, [success |-> FALSE, error |-> "Invalid or expired nonce"]))
  ELSE IF ch[nonce].used
  THEN Outcome(ch, sess, Inc(st, "failedAttestations"), tokens, "rejected",
               Resp(403, [success |-> FALSE,
                          error |-> "Nonce already used (replay attack detected)"]))
  ELSE IF isExpired(ch[nonce].expiry, t)
  THEN Outcome(Delete(ch, nonce), sess, Inc(st, "failedAttestations"), tokens, "expired",
               Resp(403, [success |-> FALSE, error |-> "Challenge expired"]))
  ELSE
    LET ch2        == secureConsume(ch, nonce)
        serverCode == Join(ch[nonce].code)
        userCode   == userCodeOf(userResponse)
        panicCode  == panicCodeOf(ch[nonce].code)
        codeMatch  == userCode = serverCode
        motion     == biometricData.motion
        touch      == biometricData.touch
        pattern    == biometricData.pattern
    IN
    IF userCode = panicCode
    THEN Outcome(ch2, sess, Inc(st, "panicModeActivations"), tokens + 1, "consumed",
                 Resp(200, securePanicBody(<<"DURESS", tokens + 1>>)))
    ELSE IF ~IsNumber(motion) \/ ~IsNumber(touch) \/ ~IsNumber(pattern)
    THEN Outcome(ch2, sess, Inc(st, "failedAttestations"), tokens, "consumed",
                 Resp(400, [success |-> FALSE, error |-> "Invalid biometric data format"]))
    ELSE IF secureApproves(codeMatch, motion, touch, pattern)
    THEN
      LET validToken  == <<"VALID", tokens + 1>>
          tokenExpiry == t + SessionTTL
          riskScore   == riskScoreOf(motion, touch, pattern)
      IN Outcome(ch2,
                 Put(sess, validToken,
                     [deviceId |-> deviceId, status |-> "VERIFIED", riskScore |-> riskScore,
                      biometricScores |-> [motion |-> motion, touch |-> touch,
                                           pattern |-> pattern],
                      expiry |-> tokenExpiry, createdAt |-> t, nonce |-> nonce]),
                 Inc(Inc(st, "totalAttestations"), "successfulAttestations"),
                 tokens + 1, "consumed",
                 Resp(200, secureApprovedBody(validToken, riskScore, tokenExpiry)))
    ELSE Outcome(ch2, sess, Inc(st, "failedAttestations"), tokens, "consumed",
                 Resp(401, [success |-> FALSE, error |-> "Verification failed",
                            reasons |-> reasonsOf(codeMatch, motion, touch, pattern)]))

\* an absent sessionToken
NoToken == <<"", 0>>

\* app.post('/verify'): session token validation
secureVerify(sess, st, t, sessionToken) ==
  IF sessionToken = NoToken
  THEN [sess |-> sess, st |-> st,
        res |-> Resp(400, [valid |-> FALSE, error |-> "Missing sessionToken"])]
  ELSE IF sessionToken \notin DOMAIN sess
  THEN [sess |-> sess, st |-> Inc(st, "totalVerifications"),
        res |-> Resp(200, [valid |-> FALSE, status |-> "INVALID"])]
  ELSE IF isExpired(sess[sessionToken].expiry, t)
  THEN [sess |-> Delete(sess, sessionToken), st |-> Inc(st, "totalVerifications"),
        res |-> Resp(200, [valid |-> FALSE, status |-> "EXPIRED"])]
  ELSE [sess |-> sess, st |-> Inc(st, "totalVerifications"),
        res |-> Resp(200, [valid |-> TRUE, status |-> "VALID",
                           riskScore |-> sess[sessionToken].riskScore,
                           deviceId |-> sess[sessionToken].deviceId,
                           verifiedAt |-> sess[sessionToken].createdAt,
                           expiresAt |-> sess[sessionToken].expiry])]

\* a sweep that deletes nothing
sweepNothing(m, t) == m

\* a sweep that also deletes the entries that expire at this instant
sweepAtExpiry(m, t) == Keep(m, {k \in DOMAIN m : m[k].expiry > t})

\* setInterval(..., 60 * 1000): entries with expiry < now are deleted
sweep(m, t) == Keep(m, {k \in DOMAIN m : ~isExpired(m[k].expiry, t)})

----------------------------------------------------------------------------
(* "api": src/server.js v3.0, the client registry *)

ApiStats0 ==
  [totalChallenges |-> 0, totalVerifications |-> 0, successfulVerifications |-> 0,
   failedVerifications |-> 0, blockedRequests |-> 0]

\* PLANS[plan], undefined (falsy, here 0) for a plan that is not in the table
PLANS(plan) ==
  CASE plan = "starter"    -> StarterLimit
    [] plan = "business"   -> BusinessLimit
    [] plan = "enterprise" -> EnterpriseLimit
    [] plan = "unlimited"  -> UnlimitedLimit
    [] OTHER               -> 0

\* plan || 'starter': "" is an absent plan
OrElsePlan(plan) == IF plan # "" THEN plan ELSE "starter"

\* a || b for numbers: 0 is falsy
OrElse(a, b) == IF a # 0 THEN a ELSE b

\* monthlyLimit || PLANS[plan] || 5000
monthlyLimitOf(monthlyLimit, plan) == OrElse(OrElse(monthlyLimit, PLANS(plan)), StarterLimit)

\* a reset that fires on every check
checkMonthlyResetAlways(client, thisMonth) ==
  [client EXCEPT !.used_this_month = 0, !.last_reset_month = thisMonth]

\* a reset that moves the month and keeps the usage
checkMonthlyResetKeeps(client, thisMonth) ==
  [client EXCEPT !.last_reset_month = thisMonth]

\* checkMonthlyReset(client): the row after it
checkMonthlyReset(client, thisMonth) ==
  IF client.last_reset_month # thisMonth
  THEN [client EXCEPT !.used_this_month = 0, !.last_reset_month = thisMonth]
  ELSE client

\* a status check that stops the expired accounts only
accountInactiveExpired(client) == client.status = "expired"

\* client.status !== 'active'
accountInactive(client) == client.status # "active"

\* an expiry check that finds no subscription ended
subscriptionExpiredNever(client, t) == FALSE

\* an expiry check with the comparison turned round
subscriptionExpiredInverted(client, t) == client.expires_at # 0 /\ t < client.expires_at

\* client.expires_at && Date.now() > client.expires_at  (expires_at is never null
\* or 0 in a row written by /admin/clients/add)
subscriptionExpired(client, t) == client.expires_at # 0 /\ t > client.expires_at

\* a limit test without the test for no limit
limitReachedAtZero(client) == client.used_this_month >= client.monthly_limit

\* a limit that is reached one verification late
limitReachedLate(client) ==
  client.monthly_limit > 0 /\ client.used_this_month > client.monthly_limit

\* client.monthly_limit > 0 && client.used_this_month >= client.monthly_limit
limitReached(client) ==
  client.monthly_limit > 0 /\ client.used_this_month >= client.monthly_limit

Denied(cl, st, status, body) ==
  [ok |-> FALSE, cl |-> cl, st |-> Inc(st, "blockedRequests"), res |-> Resp(status, body)]

StatusCode(status) ==
  CASE status = "blocked" -> "ACCOUNT_BLOCKED"
    [] status = "expired" -> "ACCOUNT_EXPIRED"
    [] OTHER              -> "ACCOUNT_ACTIVE"

\* validateApiKey(req, res, next): apiKey 0 is an absent key
validateApiKey(cl, st, t, thisMonth, apiKey) ==
  IF apiKey = 0
  THEN Denied(cl, st, 401, [success |-> FALSE, code |-> "NO_API_KEY"])
  ELSE IF apiKey \notin DOMAIN cl
  THEN Denied(cl, st, 401, [success |-> FALSE, code |-> "INVALID_KEY"])
  ELSE IF accountInactive(cl[apiKey])
  THEN Denied(cl, st, 403, [success |-> FALSE, code |-> StatusCode(cl[apiKey].status)])
  ELSE IF subscriptionExpired(cl[apiKey], t)
  THEN Denied([cl EXCEPT ![apiKey].status = "expired"], st, 403,
              [success |-> FALSE, code |-> "SUBSCRIPTION_EXPIRED"])
  ELSE
    LET client == checkMonthlyReset(cl[apiKey], thisMonth)
        cl2    == [cl EXCEPT ![apiKey] = client]
    IN IF limitReached(client)
       THEN Denied(cl2, st, 429,
                   [success |-> FALSE, code |-> "LIMIT_REACHED",
                    used |-> client.used_this_month, limit |-> client.monthly_limit])
       ELSE [ok |-> TRUE, cl |-> cl2, st |-> st, client |-> client]

\* a usage record that counts the month only
recordUsageOfMonth(client) == [client EXCEPT !.used_this_month = @ + 1]

\* stmtUpdateClient.run(..., client.used_this_month + 1, ..., client.total_verifications + 1, ...)
recordUsage(client) ==
  [client EXCEPT !.used_this_month = @ + 1, !.total_verifications = @ + 1]

\* const { motion = 0, touch = 0, pattern = 0 } = biometricData || {}
OrZero(x) == IF x.t = "undefined" THEN Num(0) ELSE x

\* codeMatch && sensorsActive >= 1
apiApproves(codeMatch, motion, touch, pattern) ==
  codeMatch /\ sensorsActive(motion, touch, pattern) >= ApiMinSensors

\* an owner check turned round: the owner is refused, every other key passes
keyMismatchOwner(challengeData, apiKey) == challengeData.apiKey = apiKey

\* an owner check that lets every key through
keyMismatchNever(challengeData, apiKey) == FALSE

\* challengeData.apiKey !== client.api_key
keyMismatch(challengeData, apiKey) == challengeData.apiKey # apiKey

ApiOutcome(ch, cl, st, nonceCheck, res) ==
  [ch |-> ch, cl |-> cl, st |-> st, nonceCheck |-> nonceCheck, res |-> res]

\* the handler of app.post('/api/v1/verify'), after validateApiKey admitted client
apiVerify(ch, cl, st, t, thisMonth, apiKey, client, nonce, userResponse, biometricData) ==
  IF nonce = 0 \/ ~Truthy(userResponse) \/ ~Truthy(biometricData)
  THEN ApiOutcome(ch, cl, st, "rejected", Resp(400, [success |-> FALSE, error |-> "Missing fields"]))
  ELSE IF nonce \notin DOMAIN ch
  THEN ApiOutcome(ch, cl, st, "rejected",
                  Resp(403, [success |-> FALSE, error |-> "Invalid or expired nonce"]))
  ELSE IF keyMismatch(ch[nonce], apiKey)
  THEN ApiOutcome(ch, cl, st, "rejected",
                  Resp(403, [success |-> FALSE, error |-> "API key mismatch"]))
  ELSE IF ch[nonce].used
  THEN ApiOutcome(ch, cl, Inc(st, "failedVerifications"), "rejected",
                  Resp(403, [success |-> FALSE, error |-> "Nonce already used"]))
  ELSE IF isExpired(ch[nonce].expiry, t)
  THEN ApiOutcome(Delete(ch, nonce), cl, Inc(st, "failedVerifications"), "expired",
                  Resp(403, [success |-> FALSE, error |-> "Challenge expired"]))
  ELSE
    LET ch2        == apiConsume(ch, nonce)
        serverCode == Join(ch[nonce].code)
        userCode   == userCodeOf(userResponse)
        motion     == OrZero(biometricData.motion)
        touch      == OrZero(biometricData.touch)
        pattern    == OrZero(biometricData.pattern)
        codeMatch  == userCode = serverCode
    IN
    IF apiApproves(codeMatch, motion, touch, pattern)
    THEN
      LET riskScore == riskScoreOf(motion, touch, pattern)
          client2   == checkMonthlyReset(client, thisMonth)
      IN ApiOutcome(ch2, [cl EXCEPT ![apiKey] = recordUsage(client2)],
                    Inc(Inc(st, "totalVerifications"), "successfulVerifications"), "consumed",
                    Resp(200, [success |-> TRUE, allowed |-> TRUE, riskScore |-> riskScore,
                               clientName |-> client.name]))
    ELSE ApiOutcome(ch2, cl, Inc(Inc(st, "totalVerifications"), "failedVerifications"), "consumed",
                    Resp(401, [success |-> FALSE, allowed |-> FALSE,
                               error |-> "Verification failed",
                               reasons |-> reasonsOf(codeMatch, motion, touch, pattern)]))

\* a renewal that always counts from now
renewedFromNow(client, t, days) == t + days * DayLen

\* renew: baseTime = client.expires_at > now ? client.expires_at : now
renewedExpiry(client, t, days) ==
  (IF client.expires_at > t THEN client.expires_at ELSE t) + days * DayLen

----------------------------------------------------------------------------
(* "proto": src/server.js:1-82, and "index": src/index.js *)

NoStats == [none |-> 0]

\* app.post('/attest') of the first prototype: the nonce is marked, not removed
protoAttest(ch, sess, tokens, t, nonce, deviceId, biometricData) ==
  IF nonce \notin DOMAIN ch
  THEN Outcome(ch, sess, NoStats, tokens, "rejected", Resp(400, [error |-> "Invalid Nonce"]))
  ELSE IF ch[nonce].used
  THEN Outcome(ch, sess, NoStats, tokens, "rejected", Resp(403, [error |-> "Replay Attack!"]))
  ELSE
    LET ch2 == [ch EXCEPT ![nonce].used = TRUE]
    IN IF ~Truthy(biometricData)
       THEN Outcome(ch2, sess, NoStats, tokens, "consumed", Resp(403, [error |-> "No Data"]))
       ELSE Outcome(ch2,
                    Put(sess, <<"", tokens + 1>>,
                        [deviceId |-> deviceId, expiry |-> t + SessionTTL]),
                    NoStats, tokens + 1, "consumed",
                    Resp(200, [success |-> TRUE, sessionToken |-> <<"", tokens + 1>>,
                               riskScore |-> "0.1"]))

\* avg < 0.1: false when a field is no number (NaN)
AvgLt(motion, touch, pattern, thr) ==
  /\ IsNumber(motion) /\ IsNumber(touch) /\ IsNumber(pattern)
  /\ BigGt(Double(thr), avgScore(motion.v, touch.v, pattern.v))

\* biometricData || { motion: 0, touch: 0, pattern: 0 }
OrZeros(biometricData) ==
  IF Truthy(biometricData) THEN biometricData ELSE Bio(Num(0), Num(0), Num(0))

\* app.post('/attest') of index.js
indexAttest(ch, sess, tokens, t, nonce, deviceId, biometricData) ==
  IF nonce \notin DOMAIN ch \/ ch[nonce].used
  THEN Outcome(ch, sess, NoStats, tokens, "rejected",
               Resp(400, [error |-> "Invalid/Expired nonce"]))
  ELSE
    LET ch2 == [ch EXCEPT ![nonce].used = TRUE]
        bio == OrZeros(biometricData)
    IN IF AvgLt(bio.motion, bio.touch, bio.pattern, BotAvg)
       THEN Outcome(ch2, sess, NoStats, tokens, "consumed", Resp(403, [error |-> "Bot detected"]))
       ELSE Outcome(ch2,
                    Put(sess, <<"", tokens + 1>>,
                        [deviceId |-> deviceId,
                         riskScore |-> IF AvgGt(bio.motion, bio.touch, bio.pattern, LowRiskAvg)
                                       THEN "LOW" ELSE "MEDIUM",
                         expiry |-> t + SessionTTL]),
                    NoStats, tokens + 1, "consumed",
                    Resp(200, [success |-> TRUE, sessionToken |-> <<"", tokens + 1>>]))

----------------------------------------------------------------------------
(* Requests, responses and history *)

Idle == [op |-> "none"]

Hist0 ==
  [consumed |-> [n \in Nonces |-> 0], observed |-> [n \in Nonces |-> 0],
   approved |-> EmptyMap, returned |-> EmptyMap, evicted |-> {}, mismatched |-> {},
   reinstated |-> {}]

IsApproval(res) == res.status = 200 /\ res.body.success

\* a verify call as its caller made it: the body, and the API key of the header
\* (0 in the programs that have no keys)
Call(req, apiKey) == [req |-> req, apiKey |-> apiKey]

\* the history after a verify call on nonce: per nonce, the calls that read the
\* used flag as false and the calls that consumed the challenge are counted;
\* the call that was approved, and the token it returned with the time of the
\* call, are kept; evicted holds the tokens that a validation reported EXPIRED,
\* mismatched the nonces that a call was refused for with 'API key mismatch'
Record(h, nonce, call, t, out) ==
  [consumed |-> IF out.nonceCheck = "consumed"
                THEN [h.consumed EXCEPT ![nonce] = @ + 1] ELSE h.consumed,
   observed |-> IF out.nonceCheck \in {"expired", "consumed"}
                THEN [h.observed EXCEPT ![nonce] = @ + 1] ELSE h.observed,
   approved |-> IF out.nonceCheck = "consumed" /\ IsApproval(out.res)
                THEN Put(h.approved, nonce, call) ELSE h.approved,
   returned |-> IF out.nonceCheck = "consumed" /\ IsApproval(out.res)
                   /\ "sessionToken" \in DOMAIN out.res.body
                THEN Put(h.returned, out.res.body.sessionToken, t) ELSE h.returned,
   evicted  |-> h.evicted,
   mismatched |-> IF out.res.status = 403 /\ out.res.body.error = "API key mismatch"
                  THEN h.mismatched \cup {nonce} ELSE h.mismatched,
   reinstated |-> h.reinstated]

AttestReq(nonce, deviceId, userResponse, biometricData) ==
  [nonce |-> nonce, deviceId |-> deviceId, userResponse |-> userResponse,
   biometricData |-> biometricData]

\* the requests of a run: every well-formed one, and one with each field absent
Requests(nonces, responses, biometrics) ==
  {AttestReq(n, "dev1", r, b) :
     n \in nonces, r \in responses \ {NoResponse}, b \in biometrics \ {NoBio}}
  \cup {AttestReq(0, "dev1", Arr(<<0, 0, 0>>), Bio(Num(0), Num(0), Num(0))),
        AttestReq(1, "", Arr(<<0, 0, 0>>), Bio(Num(0), Num(0), Num(0)))}
  \cup {AttestReq(1, "dev1", NoResponse, Bio(Num(0), Num(0), Num(0))) :
          x \in responses \cap {NoResponse}}
  \cup {AttestReq(1, "dev1", Arr(<<0, 0, 0>>), NoBio) : x \in biometrics \cap {NoBio}}

----------------------------------------------------------------------------
(* Actions of "secure" *)

\* app.post('/getChallenge'), the code drawn from codes
SecureGetChallengeOf(codes) ==
  /\ sys = "secure"
  /\ fresh.nonce < MaxSecure
  /\ \E secretCode \in codes :
       LET nonce  == fresh.nonce + 1
           expiry == now + ChallengeTTL
       IN /\ activeChallenges' =
               Put(activeChallenges, nonce,
                   [code |-> secretCode, expiry |-> expiry, used |-> FALSE, createdAt |-> now])
          /\ last' = [op |-> "getChallenge", at |-> now,
                      res |-> Resp(200, [success |-> TRUE, nonce |-> nonce,
                                         challengeCode |-> secretCode, expiry |-> expiry,
                                         serverTime |-> now])]
  /\ fresh' = [fresh EXCEPT !.nonce = @ + 1]
  /\ stats' = Inc(stats, "totalChallenges")
  /\ UNCHANGED <<sys, now, month, ticks, sessions, clients, hist>>

SecureGetChallenge == SecureGetChallengeOf(RunCodes)

SecureGetChallengeWide == SecureGetChallengeOf(Codes)

\* app.post('/attest'), the request drawn from reqs
SecureAttestOf(reqs) ==
  /\ sys = "secure"
  /\ \E req \in reqs :
       LET out == secureAttest(activeChallenges, sessions, stats, fresh.token, now,
                               req.nonce, req.deviceId, req.userResponse, req.biometricData)
       IN /\ activeChallenges' = out.ch
          /\ sessions' = out.sess
          /\ stats' = out.st
          /\ fresh' = [fresh EXCEPT !.token = out.tokens]
          /\ last' = [op |-> "attest", at |-> now, req |-> req, apiKey |-> 0,
                      pre |-> Lookup(activeChallenges, req.nonce),
                      nonceCheck |-> out.nonceCheck, res |-> out.res]
          /\ hist' = IF req.nonce \in Nonces
                     THEN Record(hist, req.nonce, Call(req, 0), now, out) ELSE hist
  /\ UNCHANGED <<sys, now, month, ticks, clients>>

SecureAttest == SecureAttestOf(Requests(1..MaxSecure, UserResponses, BiometricSamples))

SecureAttestWide == SecureAttestOf(Requests(1..MaxSecure, WideResponses, WideBiometrics))

\* the tokens that /attest can return
SessionTokens == {<<k, i>> : k \in {"VALID", "DURESS"}, i \in 1..MaxSecure}

\* app.post('/verify'), the token drawn from tokens, at most max validations
\* counted
SecureVerifyOf(tokens, max) ==
  /\ sys = "secure"
  /\ stats.totalVerifications < max
  /\ \E sessionToken \in tokens :
       LET out == secureVerify(sessions, stats, now, sessionToken)
       IN /\ sessions' = out.sess
          /\ stats' = out.st
          /\ last' = [op |-> "verify", at |-> now, req |-> [sessionToken |-> sessionToken],
                      res |-> out.res]
          /\ hist' = IF out.res.status = 200 /\ out.res.body.status = "EXPIRED"
                     THEN [hist EXCEPT !.evicted = @ \cup {sessionToken}] ELSE hist
  /\ UNCHANGED <<sys, now, month, ticks, activeChallenges, clients, fresh>>

SecureVerify == SecureVerifyOf(SessionTokens, MaxCount)

\* validation with an issued, an unknown or an absent token
SecureValidate == SecureVerifyOf(SessionTokens \cup {<<"VALID", 0>>, NoToken}, MaxVerify)

\* the setInterval callback
SecureCleanup ==
  /\ sys = "secure"
  /\ activeChallenges' = sweep(activeChallenges, now)
  /\ sessions' = sweep(sessions, now)
  /\ last' = Idle
  /\ UNCHANGED <<sys, now, month, ticks, clients, stats, fresh, hist>>

----------------------------------------------------------------------------
(* Actions of "api" *)

KeyInputs == 0..MaxClients       \* 0 is an absent key; a key not created yet is unknown

\* app.post('/api/v1/challenge', challengeLimiter, validateApiKey, ...), the key
\* drawn from keys and the code from codes; at most denials denied requests are
\* followed
ApiChallengeBy(keys, codes, denials) ==
  /\ sys = "api"
  /\ \E apiKey \in keys :
       LET adm    == validateApiKey(clients, stats, now, month, apiKey)
           nonce  == fresh.nonce + 1
           expiry == now + ChallengeTTL
       IN IF adm.ok
          THEN /\ fresh.nonce < MaxNonce
               /\ \E secretCode \in codes :
                    /\ activeChallenges' =
                         Put(activeChallenges, nonce,
                             [code |-> secretCode, expiry |-> expiry, used |-> FALSE,
                              createdAt |-> now, apiKey |-> apiKey,
                              clientName |-> adm.client.name])
                    /\ last' = [op |-> "challenge", at |-> now, thisMonth |-> month,
                                apiKey |-> apiKey, client |-> Lookup(clients, apiKey),
                                res |-> Resp(200, [success |-> TRUE, nonce |-> nonce,
                                                   challengeCode |-> secretCode,
                                                   expiry |-> expiry])]
               /\ clients' = adm.cl
               /\ stats' = Inc(adm.st, "totalChallenges")
               /\ fresh' = [fresh EXCEPT !.nonce = @ + 1]
          ELSE /\ adm.st.blockedRequests <= denials
               /\ clients' = adm.cl
               /\ stats' = adm.st
               /\ last' = [op |-> "challenge", at |-> now, thisMonth |-> month,
                           apiKey |-> apiKey, client |-> Lookup(clients, apiKey),
                           res |-> adm.res]
               /\ UNCHANGED <<activeChallenges, fresh>>
  /\ UNCHANGED <<sys, now, month, ticks, sessions, hist>>

ApiChallengeOf(codes) == ApiChallengeBy(KeyInputs, codes, MaxCount)

\* in the runs of "api", which has no panic path, the code is 000 and the response
\* is 000 or 100
ApiRunCodes == {[i \in 1..CodeLen |-> 0]}
ApiRunResponses == {Arr(<<0, 0, 0>>), Arr(<<1, 0, 0>>), NoResponse}

ApiChallenge == ApiChallengeOf(ApiRunCodes)

ApiChallengeWide == ApiChallengeOf(Codes)

\* app.post('/api/v1/verify', verifyLimiter, validateApiKey, ...), the key drawn
\* from keys and the body from reqs; at most denials denied requests are followed
ApiVerifyBy(keys, reqs, denials) ==
  /\ sys = "api"
  /\ \E apiKey \in keys :
       LET adm == validateApiKey(clients, stats, now, month, apiKey)
       IN IF adm.ok
          THEN \E req \in reqs :
                 LET out == apiVerify(activeChallenges, adm.cl, adm.st, now, month, apiKey,
                                      adm.client, req.nonce, req.userResponse,
                                      req.biometricData)
                 IN /\ activeChallenges' = out.ch
                    /\ clients' = out.cl
                    /\ stats' = out.st
                    /\ last' = [op |-> "verify", at |-> now, thisMonth |-> month,
                                apiKey |-> apiKey, client |-> Lookup(clients, apiKey),
                                req |-> req, pre |-> Lookup(activeChallenges, req.nonce),
                                nonceCheck |-> out.nonceCheck, res |-> out.res]
                    /\ hist' = IF req.nonce \in Nonces
                               THEN Record(hist, req.nonce, Call(req, apiKey), now, out)
                               ELSE hist
          ELSE /\ adm.st.blockedRequests <= denials
               /\ clients' = adm.cl
               /\ stats' = adm.st
               /\ last' = [op |-> "verify", at |-> now, thisMonth |-> month,
                           apiKey |-> apiKey, client |-> Lookup(clients, apiKey),
                           res |-> adm.res]
               /\ UNCHANGED <<activeChallenges, hist>>
  /\ UNCHANGED <<sys, now, month, ticks, sessions, fresh>>

ApiVerifyOf(reqs) == ApiVerifyBy(KeyInputs, reqs, MaxCount)

\* the handler does not read deviceId
ApiRequests(nonces, responses, biometrics) ==
  {req \in Requests(nonces, responses, biometrics) : req.deviceId # ""}

ApiVerify == ApiVerifyOf(ApiRequests(Nonces, ApiRunResponses, BiometricSamples))

ApiVerifyWide == ApiVerifyOf(ApiRequests({1}, WideResponses, WideBiometrics))

\* the setInterval callback of server.js v3
ApiCleanup ==
  /\ sys = "api"
  /\ activeChallenges' = sweep(activeChallenges, now)
  /\ sessions' = sweep(sessions, now)
  /\ last' = Idle
  /\ UNCHANGED <<sys, now, month, ticks, clients, stats, fresh, hist>>

AdminRes(op, apiKey, res) == [op |-> op, at |-> now, apiKey |-> apiKey, res |-> res]

NotFound == Resp(404, [success |-> FALSE, error |-> "Client not found"])

\* validateAdmin with a wrong password, on any admin endpoint
AdminUnauthorized ==
  /\ sys = "api"
  /\ last' = AdminRes("admin", 0, Resp(401, [success |-> FALSE,
                                              error |-> "Invalid admin password"]))
  /\ UNCHANGED <<sys, now, month, ticks, activeChallenges, sessions, clients, stats,
                 fresh, hist>>

\* app.post('/admin/clients/add'): monthlyLimit 0 and durationDays 0 are absent;
\* at most max tenants are created
AdminAddUpTo(max, plans, limits, durations) ==
  /\ sys = "api"
  /\ fresh.key < max
  /\ \E plan \in plans, monthlyLimit \in limits, durationDays \in durations :
       LET apiKey == fresh.key + 1
           days   == OrElse(durationDays, DefaultDays)
           limit  == monthlyLimitOf(monthlyLimit, plan)
       IN /\ clients' =
               Put(clients, apiKey,
                   [name |-> "acme", plan |-> OrElsePlan(plan), status |-> "active",
                    created_at |-> now, expires_at |-> now + days * DayLen,
                    monthly_limit |-> limit, used_this_month |-> 0,
                    last_reset_month |-> month, total_verifications |-> 0])
          /\ last' = [op |-> "add", at |-> now, apiKey |-> apiKey,
                      req |-> [plan |-> plan, monthlyLimit |-> monthlyLimit,
                               durationDays |-> durationDays],
                      res |-> Resp(200, [success |-> TRUE, apiKey |-> apiKey,
                                         plan |-> OrElsePlan(plan),
                                         monthlyLimit |-> limit])]
  /\ fresh' = [fresh EXCEPT !.key = @ + 1]
  /\ UNCHANGED <<sys, now, month, ticks, activeChallenges, sessions, stats, hist>>

AdminAddOf(plans, limits, durations) == AdminAddUpTo(MaxClients, plans, limits, durations)

\* monthlyLimit given as the string of the digits of n, as JSON allows: '0' is
\* a truthy value
NumText(n) == [t |-> "numeral", v |-> n]

\* what the column monthly_limit INTEGER holds after stmtAddClient.run bound
\* the value x to it: SQLite stores a string that spells an integer as that
\* integer
integerAffinity(x) == x.v

\* app.post('/admin/clients/add') with monthlyLimit: '0'
AdminAddZeroText ==
  /\ sys = "api"
  /\ fresh.key < MaxClients
  /\ LET apiKey       == fresh.key + 1
         monthlyLimit == NumText(0)
         limit        == IF Truthy(monthlyLimit) THEN monthlyLimit
                         ELSE Num(monthlyLimitOf(0, "starter"))
     IN /\ clients' =
             Put(clients, apiKey,
                 [name |-> "acme", plan |-> "starter", status |-> "active",
                  created_at |-> now, expires_at |-> now + DefaultDays * DayLen,
                  monthly_limit |-> integerAffinity(limit), used_this_month |-> 0,
                  last_reset_month |-> month, total_verifications |-> 0])
        /\ last' = [op |-> "add", at |-> now, apiKey |-> apiKey,
                    req |-> [plan |-> "", monthlyLimit |-> monthlyLimit, durationDays |-> 0],
                    res |-> Resp(200, [success |-> TRUE, apiKey |-> apiKey,
                                       plan |-> "starter", monthlyLimit |-> limit])]
  /\ fresh' = [fresh EXCEPT !.key = @ + 1]
  /\ UNCHANGED <<sys, now, month, ticks, activeChallenges, sessions, stats, hist>>

AdminAdd == AdminAddOf({"starter"}, {1, 2}, {0})

\* app.post('/admin/clients/add') without a name
AdminAddNoName ==
  /\ sys = "api"
  /\ last' = AdminRes("add", 0, Resp(400, [success |-> FALSE, error |-> "name required"]))
  /\ UNCHANGED <<sys, now, month, ticks, activeChallenges, sessions, clients, stats,
                 fresh, hist>>

\* block, unblock, renew and delete share their shape: 404 for an unknown key
AdminUpdate(op, apiKey, row) ==
  /\ sys = "api"
  /\ IF apiKey \in DOMAIN clients
     THEN /\ clients' = [clients EXCEPT ![apiKey] = row]
          /\ last' = AdminRes(op, apiKey, Resp(200, [success |-> TRUE]))
     ELSE /\ clients' = clients
          /\ last' = AdminRes(op, apiKey, NotFound)
  /\ UNCHANGED <<sys, now, month, ticks, activeChallenges, sessions, stats, fresh>>

RowOr(apiKey) == IF apiKey \in DOMAIN clients THEN clients[apiKey] ELSE NoChallenge

\* app.post('/admin/clients/block')
AdminBlock ==
  /\ \E apiKey \in 1..MaxClients :
       AdminUpdate("block", apiKey, [RowOr(apiKey) EXCEPT !.status = "blocked"])
  /\ hist' = hist

\* app.post('/admin/clients/unblock'); the history keeps the tenants that were
\* unblocked after the end of their subscription
AdminUnblock ==
  \E apiKey \in 1..MaxClients :
    /\ AdminUpdate("unblock", apiKey, [RowOr(apiKey) EXCEPT !.status = "active"])
    /\ hist' = IF apiKey \in DOMAIN clients /\ now > clients[apiKey].expires_at
               THEN [hist EXCEPT !.reinstated = @ \cup {apiKey}] ELSE hist

\* app.post('/admin/clients/renew'): durationDays 0 is absent
AdminRenew ==
  /\ sys = "api"
  /\ \E apiKey \in 1..MaxClients, durationDays \in {0, DefaultDays + 1} :
       IF apiKey \in DOMAIN clients
       THEN LET client    == clients[apiKey]
                days      == OrElse(durationDays, DefaultDays)
                newExpiry == renewedExpiry(client, now, days)
            IN /\ newExpiry <= MaxRenewDays * DayLen
               /\ clients' = [clients EXCEPT ![apiKey] =
                                [client EXCEPT !.status = "active", !.expires_at = newExpiry]]
               /\ last' = [op |-> "renew", at |-> now, apiKey |-> apiKey,
                           client |-> Lookup(clients, apiKey),
                           req |-> [durationDays |-> durationDays],
                           res |-> Resp(200, [success |-> TRUE, newExpiry |-> newExpiry])]
       ELSE /\ clients' = clients
            /\ last' = AdminRes("renew", apiKey, NotFound)
  /\ UNCHANGED <<sys, now, month, ticks, activeChallenges, sessions, stats, fresh, hist>>

\* app.post('/admin/clients/delete')
AdminDelete ==
  /\ sys = "api"
  /\ \E apiKey \in 1..MaxClients :
       IF apiKey \in DOMAIN clients
       THEN /\ clients' = Delete(clients, apiKey)
            /\ last' = AdminRes("delete", apiKey, Resp(200, [success |-> TRUE]))
       ELSE /\ clients' = clients
            /\ last' = AdminRes("delete", apiKey, NotFound)
  /\ UNCHANGED <<sys, now, month, ticks, activeChallenges, sessions, stats, fresh, hist>>

\* app.get('/admin/clients'): checkMonthlyReset on every row
AdminList ==
  /\ sys = "api"
  /\ clients' = [k \in DOMAIN clients |-> checkMonthlyReset(clients[k], month)]
  /\ last' = AdminRes("list", 0, Resp(200, [success |-> TRUE,
                                             total |-> Cardinality(DOMAIN clients)]))
  /\ UNCHANGED <<sys, now, month, ticks, activeChallenges, sessions, stats, fresh, hist>>

\* new Date() enters the next calendar month
MonthRollover ==
  /\ sys = "api"
  /\ month < MaxMonth
  /\ month' = month + 1
  /\ last' = Idle
  /\ UNCHANGED <<sys, now, ticks, activeChallenges, sessions, clients, stats, fresh, hist>>

----------------------------------------------------------------------------
(* Actions of "proto" and "index" *)

\* app.post('/getChallenge'); index.js then deletes the challenges with expiry < now
ProtoGetChallenge ==
  /\ sys \in {"proto", "index"}
  /\ fresh.nonce < MaxNonce
  /\ LET nonce == fresh.nonce + 1
         ch    == Put(activeChallenges, nonce, [expiry |-> now + ChallengeTTL, used |-> FALSE])
     IN /\ activeChallenges' = (IF sys = "index" THEN sweep(ch, now) ELSE ch)
        /\ last' = [op |-> "getChallenge", at |-> now,
                    res |-> Resp(200, [success |-> TRUE, nonce |-> nonce])]
  /\ fresh' = [fresh EXCEPT !.nonce = @ + 1]
  /\ UNCHANGED <<sys, now, month, ticks, sessions, clients, stats, hist>>

\* app.post('/attest'), the nonce drawn from nonces and the data from biometrics
ProtoAttestOf(nonces, biometrics) ==
  /\ sys \in {"proto", "index"}
  /\ \E nonce \in nonces, biometricData \in biometrics :
       LET req == AttestReq(nonce, "dev1", NoResponse, biometricData)
           out == IF sys = "proto"
                  THEN protoAttest(activeChallenges, sessions, fresh.token, now,
                                   nonce, "dev1", biometricData)
                  ELSE indexAttest(activeChallenges, sessions, fresh.token, now,
                                   nonce, "dev1", biometricData)
       IN /\ activeChallenges' = out.ch
          /\ sessions' = out.sess
          /\ fresh' = [fresh EXCEPT !.token = out.tokens]
          /\ last' = [op |-> "attest", at |-> now, req |-> req, apiKey |-> 0,
                      pre |-> Lookup(activeChallenges, nonce),
                      nonceCheck |-> out.nonceCheck, res |-> out.res]
          /\ hist' = IF nonce \in Nonces
                     THEN Record(hist, nonce, Call(req, 0), now, out) ELSE hist
  /\ UNCHANGED <<sys, now, month, ticks, clients, stats>>

ProtoAttest == ProtoAttestOf(NonceInputs, BiometricSamples)

\* the setInterval callback of the first prototype (index.js has none)
ProtoCleanup ==
  /\ sys = "proto"
  /\ activeChallenges' = sweep(activeChallenges, now)
  /\ sessions' = sweep(sessions, now)
  /\ last' = Idle
  /\ UNCHANGED <<sys, now, month, ticks, clients, stats, fresh, hist>>

----------------------------------------------------------------------------
(* The clock *)

TickSteps ==
  IF sys = "api" THEN {1, ChallengeTTL} ELSE {1, ChallengeTTL, SessionTTL}

TickOf(steps) ==
  /\ ticks < MaxTicks
  /\ \E d \in steps : now' = now + d
  /\ ticks' = ticks + 1
  /\ last' = Idle
  /\ UNCHANGED <<sys, month, activeChallenges, sessions, clients, stats, fresh, hist>>

Tick == TickOf(TickSteps)

\* a clock step that takes every challenge of the store past its expiry
TickPastExpiry == TickOf({ChallengeTTL + 1})

\* the clock of the runs in which subscriptions expire: a second, and a day more
\* than the default duration of a subscription
TickDays == TickOf({1, (DefaultDays + 1) * DayLen})

\* store m holds an entry that has not expired
HasLive(m) == \E k \in DOMAIN m : ~isExpired(m[k].expiry, now)

\* the clock of the runs that are followed to their end: time goes on for as
\* long as an entry of a store has not expired
TickWhileLive ==
  /\ ticks < MaxTicks \/ HasLive(activeChallenges) \/ HasLive(sessions)
  /\ now' = now + ChallengeTTL + 1
  /\ ticks' = (IF ticks < MaxTicks THEN ticks + 1 ELSE ticks)
  /\ last' = Idle
  /\ UNCHANGED <<sys, month, activeChallenges, sessions, clients, stats, fresh, hist>>

----------------------------------------------------------------------------
Systems == {"secure", "api", "proto", "index"}

Init ==
  /\ sys \in Systems
  /\ now = 0
  /\ month = 0
  /\ ticks = 0
  /\ activeChallenges = EmptyMap
  /\ sessions = EmptyMap
  /\ clients = EmptyMap
  /\ stats = (CASE sys = "secure" -> SecureStats0 [] sys = "api" -> ApiStats0
                [] OTHER -> NoStats)
  /\ fresh = [nonce |-> 0, token |-> 0, key |-> 0]
  /\ last = Idle
  /\ hist = Hist0

\* the attestation engine of the four programs: challenges, verifications,
\* session validation, sweepers and the clock, with the tenants that
\* /admin/clients/add creates
Next ==
  \/ SecureGetChallenge
  \/ SecureAttest
  \/ SecureVerify
  \/ SecureCleanup
  \/ AdminAdd
  \/ ApiChallenge
  \/ ApiVerify
  \/ ApiCleanup
  \/ ProtoGetChallenge
  \/ ProtoAttest
  \/ ProtoCleanup
  \/ Tick

Spec == Init /\ [][Next]_vars

\* the client registry of server.js v3: the admin operations and the calendar
\* as well
InitTenants == Init /\ sys = "api"

NextTenants ==
  \/ ApiChallenge
  \/ ApiVerify
  \/ ApiCleanup
  \/ AdminUnauthorized
  \/ AdminAdd
  \/ AdminAddNoName
  \/ AdminBlock
  \/ AdminUnblock
  \/ AdminDelete
  \/ AdminList
  \/ MonthRollover
  \/ TickPastExpiry

SpecTenants == InitTenants /\ [][NextTenants]_vars

\* single requests on the wide input sets: one challenge is issued, and one
\* verification is made
ProbeStart == fresh.nonce = 0
ProbeIdle  == last.op \notin {"attest", "verify"}

NextProbe ==
  \/ SecureGetChallengeWide
  \/ ProbeIdle /\ SecureAttestWide
  \/ AdminAdd
  \/ ProbeStart /\ ApiChallengeWide
  \/ ProbeIdle /\ ApiVerifyWide
  \/ ProbeIdle /\ Tick

SpecProbe == Init /\ [][NextProbe]_vars

\* the life of one subscription of server.js v3: the tenant is blocked,
\* unblocked and renewed, and the clock passes the end of the subscription
LifecycleAdd == AdminAddOf({"starter"}, {1}, {0})

LifecycleChallenge == ApiChallengeBy(KeyInputs, ApiRunCodes, MaxDenied)

LifecycleVerify ==
  ApiVerifyBy(KeyInputs,
              ApiRequests(Nonces, {Arr(<<0, 0, 0>>)},
                          {Bio(Num(0), Num(0), Num(0)), Bio(Num(70), Num(70), Num(71))}),
              MaxDenied)

NextLifecycle ==
  \/ LifecycleAdd
  \/ LifecycleChallenge
  \/ LifecycleVerify
  \/ ApiCleanup
  \/ AdminBlock
  \/ AdminUnblock
  \/ AdminRenew
  \/ TickDays

SpecLifecycle == InitTenants /\ [][NextLifecycle]_vars

\* plan of req.body: a plan of the table, none, or a name the table lacks
PlanInputs == {"", "starter", "business", "enterprise", "unlimited", "gold"}

\* tenants created on every plan, with and without monthlyLimit
PlansAdd == AdminAddOf(PlanInputs, {0, 1}, {0})

NextPlans ==
  \/ PlansAdd
  \/ ApiChallenge
  \/ LifecycleVerify
  \/ Tick

SpecPlans == InitTenants /\ [][NextPlans]_vars

\* two tenants of server.js v3, each verifying on its own and on the other's
\* challenges
OwnerKeys == 1..MaxOwners

OwnersAdd == AdminAddUpTo(MaxOwners, {"starter"}, {2}, {0})

\* one challenge, asked for by either tenant
OwnersChallenge == fresh.nonce < MaxCount /\ ApiChallengeBy(OwnerKeys, ApiRunCodes, MaxCount)

OwnersVerify ==
  ApiVerifyBy(OwnerKeys,
              ApiRequests(Nonces, {Arr(<<0, 0, 0>>), Arr(<<1, 0, 0>>)},
                          {Bio(Num(0), Num(0), Num(0)), Bio(Num(70), Num(70), Num(71))}),
              MaxCount)

NextOwners ==
  \/ OwnersAdd
  \/ OwnersChallenge
  \/ OwnersVerify
  \/ ApiCleanup
  \/ TickPastExpiry

SpecOwners == InitTenants /\ [][NextOwners]_vars

\* the session store of part_000: sessions are issued, validated more than
\* once, and swept
InitSessions == Init /\ sys = "secure"

NextSessions ==
  \/ SecureGetChallenge
  \/ SecureAttest
  \/ SecureValidate
  \/ SecureCleanup
  \/ Tick

SpecSessions == InitSessions /\ [][NextSessions]_vars

\* the programs that have a sweeper, followed for as long as they run: the
\* clock goes on and the setInterval callback keeps being called
InitSwept == Init /\ sys \in {"secure", "api", "proto"}

SweptAttest ==
  SecureAttestOf(Requests(1..MaxSecure, {Arr(<<0, 0, 0>>)},
                          {Bio(Num(0), Num(0), Num(0)), Bio(Num(70), Num(70), Num(71))}))

SweptProtoAttest == ProtoAttestOf(Nonces, {Bio(Num(70), Num(70), Num(71)), NoBio})

Sweeper == SecureCleanup \/ ApiCleanup \/ ProtoCleanup

NextSwept ==
  \/ SecureGetChallenge
  \/ SweptAttest
  \/ LifecycleAdd
  \/ ApiChallenge
  \/ LifecycleVerify
  \/ ProtoGetChallenge
  \/ SweptProtoAttest
  \/ Sweeper
  \/ TickWhileLive

SpecSwept ==
  InitSwept /\ [][NextSwept]_vars /\ WF_vars(TickWhileLive) /\ WF_vars(Sweeper)

\* tenants with and without a limit: a tenant created with monthlyLimit: '0'
\* has monthly_limit 0, a tenant created with monthlyLimit: 1 has a limit of one
NextUnlimited ==
  \/ AdminAddZeroText
  \/ LifecycleAdd
  \/ ApiChallenge
  \/ LifecycleVerify
  \/ MonthRollover
  \/ Tick

SpecUnlimited == InitTenants /\ [][NextUnlimited]_vars

\* attempts made again on part_000 and server.js v3: every outcome of a
\* verification (approval, panic approval, denial, refusal of the biometric
\* format) can be followed by more calls on the same nonce
InitRetry == Init /\ sys \in {"secure", "api"}

RetryBiometrics ==
  {Bio(Num(0), Num(0), Num(0)), Bio(Num(70), Num(70), Num(71)), Bio(Str, Num(70), Num(71))}

RetryAttest == SecureAttestOf(Requests(1..MaxSecure, UserResponses, RetryBiometrics))

RetryVerify == ApiVerifyOf(ApiRequests(Nonces, ApiRunResponses, RetryBiometrics))

NextRetry ==
  \/ SecureGetChallenge
  \/ RetryAttest
  \/ AdminAdd
  \/ ApiChallenge
  \/ RetryVerify
  \/ Tick

SpecRetry == InitRetry /\ [][NextRetry]_vars

----------------------------------------------------------------------------
(* The properties *)

\* the latest step was a call of the verification endpoint that reached its
\* handler (/attest, or /api/v1/verify of an admitted tenant)
IsVerifyCall == "nonceCheck" \in DOMAIN last

\* the latest call carried every field its handler requires
WellFormed ==
  /\ last.req.nonce # 0
  /\ sys = "secure" => last.req.deviceId # ""
  /\ sys \in {"secure", "api"} =>
       Truthy(last.req.userResponse) /\ Truthy(last.req.biometricData)

\* the responses for a nonce that is not in the store or is marked used
ReplayErrors ==
  {"Invalid or expired nonce", "Nonce already used (replay attack detected)",
   "Nonce already used", "Invalid Nonce", "Replay Attack!", "Invalid/Expired nonce"}

ReplayRejection(res) ==
  /\ res.status \in {400, 403}
  /\ "error" \in DOMAIN res.body
  /\ res.body.error \in ReplayErrors

\* C1: for every issued nonce, in every interleaving of requests, clock steps
\* and sweeps, at most one verify call reads the challenge as present and
\* unused, hence at most one gets past the nonce checks; every other
\* well-formed call on that nonce is answered invalid-nonce or replay.
C1_OneTimeUse ==
  /\ \A n \in Nonces : hist.observed[n] <= 1 /\ hist.consumed[n] <= hist.observed[n]
  /\ (IsVerifyCall /\ WellFormed /\ last.req.nonce \in Nonces
        /\ last.nonceCheck = "rejected" /\ hist.observed[last.req.nonce] >= 1)
       => ReplayRejection(last.res)

\* a well-formed call on a nonce that an earlier call consumed was rejected
C1_Witness ==
  /\ IsVerifyCall /\ WellFormed /\ last.req.nonce \in Nonces
  /\ sys \in {"secure", "api"}
  /\ hist.consumed[last.req.nonce] = 1
  /\ last.nonceCheck = "rejected"
  /\ ReplayRejection(last.res)

\* the latest call repeats, field for field, the call that was approved on
\* its nonce
RepeatsApproved(l, h) ==
  /\ "nonceCheck" \in DOMAIN l
  /\ l.req.nonce \in DOMAIN h.approved
  /\ Call(l.req, l.apiKey) = h.approved[l.req.nonce]

\* C2: when a call that was approved is made a second time with the same
\* payload, the second call is answered with a replay-class error, stores no
\* session, draws no token and records no usage for any tenant.
C2_SequentialReplay ==
  [][ RepeatsApproved(last', hist) =>
        /\ ReplayRejection(last'.res)
        /\ sessions' = sessions
        /\ fresh'.token = fresh.token
        /\ \A k \in DOMAIN clients :
             /\ k \in DOMAIN clients'
             /\ clients'[k].used_this_month = clients[k].used_this_month
             /\ clients'[k].total_verifications = clients[k].total_verifications ]_vars

\* the approved call was repeated and rejected
C2_Witness ==
  /\ RepeatsApproved(last, hist)
  /\ last.nonceCheck = "rejected"
  /\ ~IsApproval(last.res)

\* C3: a verify call made when now > expiry of a challenge that is still in
\* the store (expired, not swept) is never approved: it fails, with the
\* expired outcome.  Stated for part_000, server.js v3 and index.js.
C3_ExpiredNeverApproved ==
  (IsVerifyCall /\ WellFormed /\ sys \in {"secure", "api", "index"}
     /\ last.pre.present /\ last.at > last.pre.c.expiry)
    => ~IsApproval(last.res)

\* the latest call found its challenge in the store, unused and not expired
LiveChallenge ==
  /\ IsVerifyCall /\ WellFormed
  /\ last.pre.present /\ ~last.pre.c.used /\ last.at <= last.pre.c.expiry

\* C4: for a challenge that is in the store, unused and not expired, a response
\* equal to the stored digits reversed is approved with riskScore CRITICAL,
\* whatever the biometric fields hold (part_000, the program with a panic path).
C4_PanicApproves ==
  (sys = "secure" /\ LiveChallenge
     /\ last.req.userResponse = Arr(Reverse(last.pre.c.code)))
    => IsApproval(last.res) /\ last.res.body.riskScore = "CRITICAL"

\* the reversed digits of a code that is no palindrome were approved as
\* CRITICAL with a motion field that is no number
C4_Witness ==
  /\ sys = "secure" /\ LiveChallenge
  /\ last.pre.c.code # Reverse(last.pre.c.code)
  /\ last.req.userResponse = Arr(Reverse(last.pre.c.code))
  /\ last.req.biometricData = Bio(Str, Num(70), Num(71))
  /\ IsApproval(last.res) /\ last.res.body.riskScore = "CRITICAL"

NormalRisks == {"LOW", "MEDIUM", "HIGH"}

\* C5: the response of a panic approval has the fields of the response of a
\* normal approval, and no field but riskScore tells the two apart: the
\* verdict is the same and the session token has the same form.
C5_PanicIndistinguishable ==
  (sys = "secure" /\ IsVerifyCall /\ IsApproval(last.res)
     /\ last.res.body.riskScore = "CRITICAL")
    => \A r \in NormalRisks :
         LET panic  == last.res.body
             normal == secureApprovedBody(<<"VALID", panic.sessionToken[2]>>, r,
                                          last.at + SessionTTL)
         IN /\ DOMAIN panic = DOMAIN normal
            /\ panic.verdict = normal.verdict
            /\ panic.sessionToken[1] = normal.sessionToken[1]

\* C6: every approval stores a session under the token it returns, and
\* session validation reports a returned token valid up to its expiry.
C6_ApprovalMintsSession ==
  /\ (IsVerifyCall /\ sys \in {"secure", "api"} /\ IsApproval(last.res))
       => /\ "sessionToken" \in DOMAIN last.res.body
          /\ last.res.body.sessionToken \in DOMAIN sessions
  /\ (sys = "secure" /\ last.op = "verify"
        /\ last.req.sessionToken \in DOMAIN hist.returned
        /\ last.at <= hist.returned[last.req.sessionToken] + SessionTTL)
       => last.res.body.valid

AllNumbers(b) == IsNumber(b.motion) /\ IsNumber(b.touch) /\ IsNumber(b.pattern)

\* the latest call was evaluated on the normal path: its challenge was
\* consumed, its three scores are numbers and (part_000) its response is not
\* the panic code
NormalPath ==
  /\ IsVerifyCall /\ WellFormed /\ sys \in {"secure", "api"}
  /\ last.nonceCheck = "consumed"
  /\ AllNumbers(last.req.biometricData)
  /\ sys = "secure" => last.req.userResponse # Arr(Reverse(last.pre.c.code))

\* the sensor checks that pass
PassingSensors(b) ==
  Count(b.motion.v > 15) + Count(b.touch.v > 15) + Count(b.pattern.v > 10)

\* C7: on the normal path a verification is approved if and only if the
\* response digits equal the stored code and at least one of the checks
\* motion > 0.15, touch > 0.15, pattern > 0.10 passes.
C7_ApprovedIffCodeAndOneSensor ==
  NormalPath =>
    (IsApproval(last.res)
       <=> /\ last.req.userResponse = Arr(last.pre.c.code)
           /\ PassingSensors(last.req.biometricData) >= 1)

\* the class of the average of three scores given in hundredths
RiskOfAverage(b) ==
  LET sum == b.motion.v + b.touch.v + b.pattern.v
  IN IF sum > 3 * 70 THEN "LOW" ELSE IF sum > 3 * 40 THEN "MEDIUM" ELSE "HIGH"

\* C8: on a normal approval the risk score is LOW when the average of motion,
\* touch and pattern is greater than 0.7, MEDIUM when it is greater than 0.4
\* and at most 0.7, and HIGH otherwise, and it is never CRITICAL.
C8_RiskThresholds ==
  (NormalPath /\ IsApproval(last.res))
    => /\ last.res.body.riskScore = RiskOfAverage(last.req.biometricData)
       /\ last.res.body.riskScore # "CRITICAL"

\* C9: in every reachable state, through every interleaving of admissions,
\* verifications, admin operations and month changes, a tenant with
\* monthly_limit # 0 has used_this_month <= monthly_limit.
C9_QuotaNeverExceeded ==
  \A k \in DOMAIN clients :
    clients[k].monthly_limit # 0 =>
      clients[k].used_this_month <= clients[k].monthly_limit

\* an approved verification has just brought a tenant with a limit of two to
\* its limit
C9_Witness ==
  /\ sys = "api" /\ IsVerifyCall /\ IsApproval(last.res)
  /\ last.apiKey \in DOMAIN clients
  /\ clients[last.apiKey].monthly_limit = 2
  /\ clients[last.apiKey].used_this_month = 2

\* the latest step was a request that validateApiKey examined, made with the
\* key of an active tenant with a limit whose subscription has not expired
ActiveTenantCall ==
  /\ sys = "api" /\ last.op \in {"challenge", "verify"}
  /\ last.client.present
  /\ last.client.c.status = "active"
  /\ last.at <= last.client.c.expires_at
  /\ last.client.c.monthly_limit > 0

\* validateApiKey let the latest request through
Admitted == last.res.status = 200 \/ "nonceCheck" \in DOMAIN last

\* C10: for a tenant with a limit L > 0, every approved verification adds one
\* to the usage of the month, the admit that finds L or more verifications
\* used in the current month answers LIMIT_REACHED, and the admit that finds
\* the calendar month different from last_reset_month resets the usage to 0
\* and admits the tenant.
C10_LimitThenReset ==
  ActiveTenantCall =>
    LET before    == last.client.c
        after     == clients[last.apiKey]
        sameMonth == before.last_reset_month = last.thisMonth
        base      == IF sameMonth THEN before.used_this_month ELSE 0
    IN /\ (sameMonth /\ before.used_this_month >= before.monthly_limit)
            => /\ last.res.status = 429
               /\ last.res.body.code = "LIMIT_REACHED"
               /\ after.used_this_month = before.used_this_month
       /\ ~sameMonth
            => /\ Admitted
               /\ after.last_reset_month = last.thisMonth
       /\ Admitted
            => after.used_this_month =
                 base + Count(IsVerifyCall /\ IsApproval(last.res))

\* a tenant that had used its whole limit was admitted in the next month
C10_Witness ==
  /\ ActiveTenantCall
  /\ last.client.c.used_this_month >= last.client.c.monthly_limit
  /\ last.client.c.last_reset_month # last.thisMonth
  /\ Admitted
  /\ clients[last.apiKey].used_this_month = 0

Max(a, b) == IF a >= b THEN a ELSE b

\* the request l went through validateApiKey
IsAdmit(l) == l.op \in {"challenge", "verify"}

\* validateApiKey answered the request l itself
IsDenial(l) == IsAdmit(l) /\ "code" \in DOMAIN l.res.body

\* the request l was made with the key of a tenant in state status
FromStatus(l, status) == IsAdmit(l) /\ l.client.present /\ l.client.c.status = status

\* what the request l found makes admit deny it: no key, an unknown key, a
\* tenant that is not active, a subscription that has ended, or a limit that
\* is used up in the current month
MustDeny(l) ==
  /\ IsAdmit(l)
  /\ \/ l.apiKey = 0
     \/ ~l.client.present
     \/ l.client.c.status # "active"
     \/ l.at > l.client.c.expires_at
     \/ /\ l.client.c.monthly_limit > 0
        /\ l.client.c.last_reset_month = l.thisMonth
        /\ l.client.c.used_this_month >= l.client.c.monthly_limit

\* C11: a challenge request that admit denies (no key, unknown key, blocked or
\* expired tenant, ended subscription, limit reached) is answered with a
\* denial, ACCOUNT_BLOCKED for a blocked tenant, and leaves the nonce store as
\* it was: no challenge is created and no nonce is drawn.
C11_DeniedChallengeCreatesNothing ==
  [][ last'.op = "challenge" =>
        /\ MustDeny(last') => IsDenial(last')
        /\ FromStatus(last', "blocked")
             => last'.res.status = 403 /\ last'.res.body.code = "ACCOUNT_BLOCKED"
        /\ IsDenial(last')
             => activeChallenges' = activeChallenges /\ fresh'.nonce = fresh.nonce ]_vars

\* a blocked tenant that has a challenge in the store asked for another and
\* was denied
C11_Witness ==
  /\ last.op = "challenge" /\ FromStatus(last, "blocked")
  /\ last.res.body.code = "ACCOUNT_BLOCKED"
  /\ \E n \in DOMAIN activeChallenges : activeChallenges[n].apiKey = last.apiKey

AdminOps == {"admin", "add", "block", "unblock", "renew", "delete", "list"}

\* C12: the admit of an active tenant whose expires_at is in the past answers
\* SUBSCRIPTION_EXPIRED and writes status expired, every other column as it
\* was; the admit of an expired tenant is denied and changes nothing; and
\* only an admin operation changes the status of an expired tenant.
C12_ExpiredSubscription ==
  [][ \A k \in DOMAIN clients :
        /\ (IsAdmit(last') /\ last'.apiKey = k /\ clients[k].status = "active"
              /\ now > clients[k].expires_at)
             => /\ IsDenial(last') /\ last'.res.body.code = "SUBSCRIPTION_EXPIRED"
                /\ clients' = [clients EXCEPT ![k].status = "expired"]
        /\ (IsAdmit(last') /\ last'.apiKey = k /\ clients[k].status = "expired")
             => IsDenial(last') /\ clients' = clients
        /\ (clients[k].status = "expired" /\ last'.op \notin AdminOps)
             => k \in DOMAIN clients' /\ clients'[k].status = "expired" ]_vars

\* a tenant that an admit marked expired, with a verification on its
\* counters, was denied again
C12_Witness ==
  /\ FromStatus(last, "expired") /\ IsDenial(last)
  /\ last.at > last.client.c.expires_at
  /\ last.client.c.total_verifications = 1
  /\ clients[last.apiKey] = last.client.c

\* C13: the status of a tenant leaves blocked through unblock only and
\* becomes blocked through block only, whatever else happens (admit,
\* challenge, verify, renew, sweep), and every admit of a blocked tenant is
\* denied ACCOUNT_BLOCKED.
C13_BlockedUntilUnblock ==
  [][ \A k \in DOMAIN clients :
        /\ (clients[k].status = "blocked" /\ k \in DOMAIN clients' /\ last'.op # "unblock")
             => clients'[k].status = "blocked"
        /\ (clients[k].status # "blocked" /\ k \in DOMAIN clients' /\ last'.op # "block")
             => clients'[k].status # "blocked"
        /\ (IsAdmit(last') /\ last'.apiKey = k /\ clients[k].status = "blocked")
             => IsDenial(last') /\ last'.res.body.code = "ACCOUNT_BLOCKED" ]_vars

\* C15: renew sets expires_at to max(now, previous expires_at) plus the days
\* asked for (30 when none are given) times 86400 s: expires_at does not
\* decrease and ends after now, and the usage columns are as they were.
C15_RenewExtends ==
  [][ (last'.op = "renew" /\ last'.res.status = 200) =>
        LET k      == last'.apiKey
            before == clients[k]
            after  == clients'[k]
            days   == OrElse(last'.req.durationDays, DefaultDays)
        IN /\ after.expires_at = Max(now, before.expires_at) + days * DayLen
           /\ after.expires_at >= before.expires_at
           /\ after.expires_at > now
           /\ after.used_this_month = before.used_this_month
           /\ after.last_reset_month = before.last_reset_month
           /\ after.total_verifications = before.total_verifications ]_vars

\* a subscription with a verification on its counters and an end still to
\* come was renewed for 31 days
C15_Witness ==
  /\ last.op = "renew" /\ last.res.status = 200
  /\ last.req.durationDays = DefaultDays + 1
  /\ last.client.c.expires_at > last.at
  /\ last.client.c.used_this_month = 1
  /\ clients[last.apiKey].expires_at = last.client.c.expires_at + (DefaultDays + 1) * DayLen
  /\ clients[last.apiKey].used_this_month = 1

TablePlans == {"starter", "business", "enterprise", "unlimited"}

\* C14: a tenant created on a plan of the table without a monthlyLimit gets the
\* limit of the table: 5000, 20000, 100000, and 0 for unlimited; and a tenant
\* created on the unlimited plan is never denied LIMIT_REACHED.
C14_PlanDefaultLimit ==
  /\ (last.op = "add" /\ last.res.status = 200 /\ last.req.monthlyLimit = 0
        /\ last.req.plan \in TablePlans)
       => /\ clients[last.apiKey].monthly_limit = PLANS(last.req.plan)
          /\ last.res.body.monthlyLimit = PLANS(last.req.plan)
          /\ last.req.plan = "unlimited" => clients[last.apiKey].monthly_limit = 0
  /\ (IsDenial(last) /\ last.client.present /\ last.client.c.monthly_limit = 0)
       => last.res.body.code # "LIMIT_REACHED"

\* C16: a verification request leaves used_this_month and total_verifications
\* of its tenant one higher when it is approved, and as they were when it is
\* denied by admit or rejected by the handler for whatever reason;
\* used_this_month is counted from 0 when the admit of the request reset the
\* month.
C16_UsageByExactlyOne ==
  (sys = "api" /\ last.op = "verify" /\ last.client.present) =>
    LET before   == last.client.c
        after    == clients[last.apiKey]
        reset    == after.last_reset_month # before.last_reset_month
        base     == IF reset THEN 0 ELSE before.used_this_month
        approved == IsVerifyCall /\ IsApproval(last.res)
    IN /\ after.used_this_month = base + Count(approved)
       /\ after.total_verifications = before.total_verifications + Count(approved)
       /\ reset => after.last_reset_month = last.thisMonth

\* a tenant with one verification in the month before was approved again:
\* one verification this month, two in total
C16_Witness ==
  /\ sys = "api" /\ IsVerifyCall /\ IsApproval(last.res)
  /\ last.client.c.used_this_month = 1
  /\ last.client.c.last_reset_month # last.thisMonth
  /\ clients[last.apiKey].used_this_month = 1
  /\ clients[last.apiKey].total_verifications = 2

\* the reasons of the checks that failed, in the order of the specification
FailedChecks(codeMatch, b) ==
  LET named == <<[failed |-> ~codeMatch, reason |-> "Wrong code"],
                 [failed |-> ~(IsNumber(b.motion) /\ b.motion.v > MotionThreshold),
                  reason |-> "No motion"],
                 [failed |-> ~(IsNumber(b.touch) /\ b.touch.v > TouchThreshold),
                  reason |-> "No touch"],
                 [failed |-> ~(IsNumber(b.pattern) /\ b.pattern.v > PatternThreshold),
                  reason |-> "No pattern"]>>
      kept  == SelectSeq(named, LAMBDA c : c.failed)
  IN [i \in 1..Len(kept) |-> kept[i].reason]

\* the latest call was denied on the normal path
NormalDenial ==
  /\ IsVerifyCall /\ sys \in {"secure", "api"}
  /\ last.nonceCheck = "consumed"
  /\ last.res.status = 401

\* C17: a denial of the normal path reports the checks that failed and no
\* others, in the order wrong code, no motion, no touch, no pattern, and
\* reports at least one.
C17_ReasonsAreFailedChecks ==
  NormalDenial =>
    LET b == [motion  |-> IF sys = "api" THEN OrZero(last.req.biometricData.motion)
                          ELSE last.req.biometricData.motion,
              touch   |-> IF sys = "api" THEN OrZero(last.req.biometricData.touch)
                          ELSE last.req.biometricData.touch,
              pattern |-> IF sys = "api" THEN OrZero(last.req.biometricData.pattern)
                          ELSE last.req.biometricData.pattern]
    IN /\ "reasons" \in DOMAIN last.res.body
       /\ last.res.body.reasons =
            FailedChecks(last.req.userResponse = Arr(last.pre.c.code), b)
       /\ last.res.body.reasons # <<>>

\* a correct code with one sensor active was denied by part_000 for the two
\* sensors that were not
C17_Witness ==
  /\ NormalDenial /\ sys = "secure"
  /\ last.req.userResponse = Arr(last.pre.c.code)
  /\ last.req.biometricData = Bio(Num(0), Num(16), Num(0))
  /\ last.res.body.reasons = <<"No motion", "No pattern">>

\* C18: the panic path is taken only for a response that is the reversed code
\* and is not the code: when the stored code is a palindrome, a response equal
\* to the code goes through the normal path, is not reported CRITICAL and is
\* not counted as a panic activation.
C18_PalindromeIsNormal ==
  (sys = "secure" /\ LiveChallenge /\ last.pre.c.code = Reverse(last.pre.c.code)
     /\ last.req.userResponse = Arr(last.pre.c.code))
    => /\ "riskScore" \in DOMAIN last.res.body => last.res.body.riskScore # "CRITICAL"
       /\ stats.panicModeActivations = 0

\* the latest verify call named a challenge of the store that another tenant
\* asked for
OtherOwner ==
  /\ sys = "api" /\ IsVerifyCall /\ WellFormed
  /\ last.pre.present /\ last.pre.c.apiKey # last.apiKey

\* C19: a verify call of an admitted tenant on a challenge of the store whose
\* apiKey is not the caller's is answered 403 'API key mismatch' and is not
\* approved, whatever the response and the biometric values and whether or
\* not the challenge has expired; the challenge stays as it was and no usage
\* is recorded.
C19_OwnerMismatch ==
  OtherOwner =>
    /\ last.res.status = 403 /\ last.res.body.error = "API key mismatch"
    /\ ~IsApproval(last.res)
    /\ Lookup(activeChallenges, last.req.nonce) = last.pre
    /\ clients[last.apiKey].total_verifications = last.client.c.total_verifications

\* the right code and active sensors, sent for another tenant's live challenge
C19_Witness ==
  /\ OtherOwner
  /\ last.at <= last.pre.c.expiry
  /\ last.req.userResponse = Arr(last.pre.c.code)
  /\ last.req.biometricData = Bio(Num(70), Num(70), Num(71))
  /\ last.res.body.error = "API key mismatch"

\* token was returned by a normal approval, and the expiry of its session has
\* passed at time t
ExpiredToken(token, h, t) ==
  /\ token \in DOMAIN h.returned /\ token[1] = "VALID"
  /\ t > h.returned[token] + SessionTTL

\* C20: the validation of a session token whose expiry has passed reports
\* EXPIRED and removes the session; every validation of that token after it
\* reports INVALID; the validation of a token that was never issued reports
\* INVALID and leaves the session store as it was.
C20_ExpiredThenInvalid ==
  [][ (sys = "secure" /\ last'.op = "verify" /\ last'.req.sessionToken # NoToken) =>
        LET token == last'.req.sessionToken
        IN /\ (ExpiredToken(token, hist, now) /\ token \notin hist.evicted)
                => /\ last'.res.body.status = "EXPIRED"
                   /\ token \notin DOMAIN sessions'
           /\ token \in hist.evicted => last'.res.body.status = "INVALID"
           /\ token \notin DOMAIN hist.returned
                => /\ last'.res.body.status = "INVALID"
                   /\ sessions' = sessions /\ activeChallenges' = activeChallenges ]_vars

\* C20, for a session that is in the store: the validation of a token whose
\* session has expiry < now reports EXPIRED and deletes that session, so every
\* validation of the token after it reports INVALID; the validation of a token
\* that has no session in the store (never issued, evicted or swept) reports
\* INVALID and leaves the stores as they were; a session that has not expired
\* is reported VALID and kept.
C20_LazyEviction ==
  [][ (sys = "secure" /\ last'.op = "verify" /\ last'.req.sessionToken # NoToken) =>
        LET token == last'.req.sessionToken
        IN /\ IF token \in DOMAIN sessions
              THEN IF now > sessions[token].expiry
                   THEN /\ last'.res.body.status = "EXPIRED"
                        /\ sessions' = Delete(sessions, token)
                   ELSE last'.res.body.status = "VALID" /\ sessions' = sessions
              ELSE last'.res.body.status = "INVALID" /\ sessions' = sessions
           /\ token \in hist.evicted => last'.res.body.status = "INVALID"
           /\ activeChallenges' = activeChallenges ]_vars

\* a token whose validation had reported EXPIRED was validated again and
\* reported INVALID
C20_Witness ==
  /\ sys = "secure" /\ last.op = "verify"
  /\ last.req.sessionToken \in hist.evicted
  /\ last.req.sessionToken \notin DOMAIN sessions
  /\ last.res.body.status = "INVALID"

\* C21: with the sweeper running at any time or never, session validation
\* reports a token valid only when its session is in the store and now is not
\* after the expiry of the session, and a verification is approved only on a
\* challenge that is in the store with now not after its expiry (part_000).
C21_ValidOnlyWhileLive ==
  /\ (sys = "secure" /\ last.op = "verify" /\ last.res.body.valid)
       => /\ last.req.sessionToken \in DOMAIN sessions
          /\ last.at <= sessions[last.req.sessionToken].expiry
  /\ (sys = "secure" /\ IsVerifyCall /\ IsApproval(last.res))
       => last.pre.present /\ last.at <= last.pre.c.expiry

\* a session that no sweep had removed was validated after its expiry and was
\* not reported valid
C21_Witness ==
  /\ sys = "secure" /\ last.op = "verify"
  /\ last.req.sessionToken \in DOMAIN hist.returned
  /\ last.at > hist.returned[last.req.sessionToken] + SessionTTL
  /\ last.res.body.status = "EXPIRED"
  /\ ~last.res.body.valid

\* the step is a run of the sweeper: it answers no request and moves neither
\* the clock nor the calendar
IsSweep == last' = Idle /\ ticks' = ticks /\ month' = month

\* the entries of store m that have expiry >= t
Unexpired(m, t) == [k \in {x \in DOMAIN m : m[x].expiry >= t} |-> m[k]]

\* C22: one run of the sweeper (part_000, server.js v3, the prototype) removes
\* the challenges and the sessions with expiry < now and no others, and leaves
\* the entries with expiry >= now, the tenant records and the counters as they
\* were.
C22_SweepRemovesExpired ==
  [][ IsSweep =>
        /\ activeChallenges' = Unexpired(activeChallenges, now)
        /\ sessions' = Unexpired(sessions, now)
        /\ clients' = clients
        /\ stats' = stats ]_vars

\* a sweep of server.js v3 removed a challenge that nobody verified and kept
\* the challenge that expires at this instant, with a tenant in the registry
C22_Witness ==
  /\ sys = "api" /\ last = Idle
  /\ fresh.nonce = 2 /\ hist.observed[1] = 0
  /\ DOMAIN activeChallenges = {2}
  /\ activeChallenges[2].expiry = now
  /\ clients # EmptyMap

\* the tokens that a store of sessions can hold
AllTokens == {<<k, i>> : k \in {"VALID", "DURESS", ""}, i \in 1..MaxNonce}

\* C23: while time goes on and the sweeper keeps running, every challenge that
\* is in the nonce store is absent from it at some later time, verified or
\* not and whatever a verification answered, and so is every session of the
\* session store (part_000, server.js v3, the prototype).
C23_EverythingIsSwept ==
  /\ \A n \in Nonces :
       (n \in DOMAIN activeChallenges) ~> (n \notin DOMAIN activeChallenges)
  /\ \A token \in AllTokens :
       (token \in DOMAIN sessions) ~> (token \notin DOMAIN sessions)

\* the prototype has lost a challenge that was verified, a challenge that
\* nobody verified and the session of the verification
C23_Witness ==
  /\ sys = "proto" /\ fresh.nonce = 2 /\ fresh.token = 1
  /\ hist.consumed[1] = 1 /\ hist.observed[2] = 0
  /\ activeChallenges = EmptyMap /\ sessions = EmptyMap

\* the request l ran the month check on the row of tenant k: an admit that got
\* as far as the limit check, or the listing of the tenants
ChecksMonth(l, k) ==
  \/ IsAdmit(l) /\ l.apiKey = k /\ (IsDenial(l) => l.res.body.code = "LIMIT_REACHED")
  \/ l.op = "list"

\* C24: the month check that finds the calendar month different from
\* last_reset_month sets used_this_month to 0 (1 when the same request records
\* an approved verification) and last_reset_month to the current month, and
\* leaves status, expires_at and total_verifications alone; a check in the
\* month of last_reset_month, and every step that makes no check, resets
\* nothing.
C24_ResetOncePerMonth ==
  [][ \A k \in DOMAIN clients \cap DOMAIN clients' :
        LET before   == clients[k]
            after    == clients'[k]
            checked  == ChecksMonth(last', k)
            approved == /\ last'.op = "verify" /\ last'.apiKey = k
                        /\ "nonceCheck" \in DOMAIN last' /\ IsApproval(last'.res)
        IN /\ (checked /\ before.last_reset_month # month)
                => /\ after.used_this_month = Count(approved)
                   /\ after.last_reset_month = month
                   /\ after.status = before.status
                   /\ after.expires_at = before.expires_at
                   /\ after.total_verifications = before.total_verifications + Count(approved)
           /\ (checked /\ before.last_reset_month = month)
                => /\ after.used_this_month = before.used_this_month + Count(approved)
                   /\ after.last_reset_month = month
           /\ ~checked
                => /\ after.used_this_month = before.used_this_month
                   /\ after.last_reset_month = before.last_reset_month ]_vars

\* a tenant whose one verification of the month before was reset away was
\* checked again in the new month, and its usage stayed 0
C24_Witness ==
  /\ sys = "api" /\ last.op = "challenge" /\ last.res.status = 200
  /\ last.thisMonth = 1
  /\ last.client.c.last_reset_month = 1
  /\ last.client.c.used_this_month = 0
  /\ last.client.c.total_verifications = 1
  /\ clients[last.apiKey].used_this_month = 0
  /\ clients[last.apiKey].total_verifications = 1

\* C25: a request made with the key of a tenant whose monthly_limit is 0 is
\* never answered LIMIT_REACHED, whatever its used_this_month: while the
\* tenant is active and its subscription has not ended, it is admitted.
C25_ZeroLimitNeverReached ==
  (IsAdmit(last) /\ last.client.present /\ last.client.c.monthly_limit = 0)
    => /\ IsDenial(last) => last.res.body.code # "LIMIT_REACHED"
       /\ (last.client.c.status = "active" /\ last.at <= last.client.c.expires_at)
            => ~IsDenial(last)

\* a tenant with monthly_limit 0 and two verifications in the month was
\* admitted
C25_Witness ==
  /\ IsAdmit(last) /\ last.client.present
  /\ last.client.c.monthly_limit = 0
  /\ last.client.c.used_this_month = 2
  /\ last.client.c.last_reset_month = last.thisMonth
  /\ ~IsDenial(last)

\* C26: a verify call on a challenge of another tenant leaves the challenge in
\* the store, unused and as it was, and is not counted as a use of the nonce;
\* and when such a call has been refused, the verification that the owner
\* makes before the expiry with the code and an active sensor is approved.
C26_MismatchDoesNotConsume ==
  [][ (sys = "api" /\ last'.op = "verify" /\ "nonceCheck" \in DOMAIN last'
         /\ last'.req.nonce \in DOMAIN activeChallenges
         /\ Truthy(last'.req.userResponse) /\ Truthy(last'.req.biometricData)) =>
        LET n     == last'.req.nonce
            b     == last'.req.biometricData
            owner == activeChallenges[n].apiKey = last'.apiKey
        IN /\ ~owner
                => /\ activeChallenges' = activeChallenges
                   /\ ~activeChallenges'[n].used
                   /\ hist'.observed = hist.observed /\ hist'.consumed = hist.consumed
                   /\ ~IsApproval(last'.res)
           /\ (owner /\ n \in hist.mismatched /\ now <= activeChallenges[n].expiry
                 /\ last'.req.userResponse = Arr(activeChallenges[n].code)
                 /\ PassingSensors(b) >= 1)
                => IsApproval(last'.res) ]_vars

\* the owner was approved on a nonce that another tenant had been refused for
C26_Witness ==
  /\ sys = "api" /\ IsVerifyCall /\ IsApproval(last.res)
  /\ last.req.nonce \in hist.mismatched
  /\ last.pre.c.apiKey = last.apiKey
  /\ hist.consumed[last.req.nonce] = 1

\* the latest call found its challenge in the store, asked for by the caller,
\* unused and not expired
PassedNonceChecks ==
  /\ LiveChallenge /\ sys \in {"secure", "api"}
  /\ sys = "api" => last.pre.c.apiKey = last.apiKey

\* C27: a verify call that finds its challenge present, its own, unused and
\* not expired leaves the store without that challenge, whether it is approved
\* normally, approved on the panic path, denied with reasons or refused for
\* the format of its biometric data; a nonce that such a call has used is in
\* the store no more, and every later call on it is refused as an invalid
\* nonce (part_000, server.js v3).
C27_AttemptConsumesNonce ==
  /\ PassedNonceChecks
       => /\ last.req.nonce \notin DOMAIN activeChallenges
          /\ last.nonceCheck = "consumed"
          /\ last.res.status \in {200, 400, 401}
  /\ sys \in {"secure", "api"}
       => \A n \in Nonces : hist.consumed[n] >= 1 => n \notin DOMAIN activeChallenges
  /\ (IsVerifyCall /\ WellFormed /\ sys \in {"secure", "api"} /\ last.req.nonce \in Nonces
        /\ hist.consumed[last.req.nonce] >= 1 /\ ~PassedNonceChecks)
       => ReplayRejection(last.res) /\ ~IsApproval(last.res)

\* an attempt on part_000 that was not approved was made again, with three
\* active sensors, and was refused
C27_Witness ==
  /\ sys = "secure" /\ IsVerifyCall /\ WellFormed
  /\ hist.consumed[last.req.nonce] = 1
  /\ last.req.nonce \notin DOMAIN hist.approved
  /\ last.nonceCheck = "rejected"
  /\ last.req.biometricData = Bio(Num(70), Num(70), Num(71))
  /\ last.res.body.error = "Invalid or expired nonce"

\* the responses of the branch that finds the used flag set
UsedErrors == {"Nonce already used (replay attack detected)", "Nonce already used"}

\* C28: in part_000 and server.js v3 every challenge of the store has
\* used = false; no verify call finds the flag set or answers 'nonce already
\* used', and a call on a nonce that an earlier call used is answered
\* 'Invalid or expired nonce'.
C28_StoredChallengesUnused ==
  sys \in {"secure", "api"} =>
    /\ \A n \in DOMAIN activeChallenges : ~activeChallenges[n].used
    /\ IsVerifyCall
         => /\ last.pre.present => ~last.pre.c.used
            /\ "error" \in DOMAIN last.res.body => last.res.body.error \notin UsedErrors
    /\ (IsVerifyCall /\ WellFormed /\ last.req.nonce \in Nonces
          /\ hist.consumed[last.req.nonce] >= 1 /\ last.nonceCheck = "rejected")
         => last.res.status = 403 /\ last.res.body.error = "Invalid or expired nonce"

\* on server.js v3 the call that was approved on a nonce was made again and
\* answered invalid nonce, with another challenge waiting in the store
C28_Witness ==
  /\ sys = "api" /\ RepeatsApproved(last, hist)
  /\ last.nonceCheck = "rejected"
  /\ last.res.body.error = "Invalid or expired nonce"
  /\ \E n \in DOMAIN activeChallenges : n # last.req.nonce /\ ~activeChallenges[n].used

\* C29: a request made with the key of a tenant whose expires_at is in the
\* past is denied, whatever block and unblock have done to its status: when
\* the status is active (as unblock leaves it) the answer is
\* SUBSCRIPTION_EXPIRED and the status is written expired; and the end of a
\* subscription that has passed is moved past now by renew only.
C29_ExpiredNeverAdmitted ==
  [][ \A k \in DOMAIN clients :
        (clients[k].expires_at # 0 /\ now > clients[k].expires_at) =>
          /\ (IsAdmit(last') /\ last'.apiKey = k)
               => /\ IsDenial(last')
                  /\ clients[k].status = "active"
                       => /\ last'.res.body.code = "SUBSCRIPTION_EXPIRED"
                          /\ clients' = [clients EXCEPT ![k].status = "expired"]
          /\ (k \in DOMAIN clients' /\ now' <= clients'[k].expires_at)
               => last'.op = "renew" /\ last'.apiKey = k ]_vars

\* a tenant that was unblocked after the end of its subscription asked for a
\* challenge, was denied SUBSCRIPTION_EXPIRED, and is expired again
C29_Witness ==
  /\ last.op = "challenge" /\ last.apiKey \in hist.reinstated
  /\ FromStatus(last, "active")
  /\ last.at > last.client.c.expires_at
  /\ IsDenial(last) /\ last.res.body.code = "SUBSCRIPTION_EXPIRED"
  /\ clients[last.apiKey].status = "expired"
  /\ activeChallenges = EmptyMap

\* C30: no step decreases a counter of stats, and after every step the total
\* count of verifications is the sum of the successful and the failed ones
\* (totalVerifications of server.js v3, totalAttestations of part_000).
C30_CountersConsistent ==
  [][ /\ \A f \in DOMAIN stats : stats'[f] >= stats[f]
      /\ sys = "api"
           => stats'.totalVerifications =
                stats'.successfulVerifications + stats'.failedVerifications
      /\ sys = "secure"
           => stats'.totalAttestations =
                stats'.successfulAttestations + stats'.failedAttestations ]_vars

====
